---- MODULE Spec2Model ----
\* Verification model of the partitioned, checkpointed crawler
\* (crawler.py) and of its storage layer (db.py).
EXTENDS Integers, Sequences, FiniteSets, TLC

VARIABLES
    \* ---- database (db.py) ----
    repositories,    \* table repositories: the set of its rows
    stars_history,   \* table stars_history: sequence of appended rows
    checkpoints,     \* table crawl_checkpoints: partition_key -> row
    \* ---- remote search service ----
    remote,          \* [pageSize, total]: the partition's result sequence 1..total
    \* ---- crawl_partition's frame ----
    pc,              \* position inside crawl_partition
    max_from_partition,
    cursor,
    already,
    fetched,
    batch,
    page,            \* the response being iterated: [edges, hasNextPage, endCursor]
    edge,            \* index of the next edge of page.edges
    resp,            \* kind of the last response the loop saw
    slept,           \* the last sleep of the loop, <<kind, milliseconds>>
    rl,              \* rateLimit of the last response
    reqCursor,       \* cursor of the last request
    raised,          \* the exception that left crawl_partition
    \* ---- observation of the run (not program state) ----
    runs,            \* invocations of crawl_partition so far
    prevMax,         \* max_from_partition of the previous invocation
    prevKilled,      \* the previous invocation was killed
    calls,           \* storage calls of this invocation, in order
    credits,         \* record -> how many units of fetched_count it was counted as
    histAtStart,     \* Len(stars_history) when this invocation started
    cursorAtStart,   \* the checkpoint's end_cursor when this invocation started
    \* ---- observation of direct calls of db.py ----
    dbCalls,         \* calls made so far
    saved,           \* partition_key -> [sum of deltas, last cursor, number of saves]
    latest,          \* repo_id -> the entity of its most recent upsert
    lastOp,          \* the last call
    \* ---- partition_and_crawl's frame ----
    ppc,             \* position inside partition_and_crawl
    total_target,
    start,
    end,
    current,
    collected,
    window_days,
    window_start,
    window_end,
    count,
    to_fetch,
    partitions,      \* observation: the date ranges handed to crawl_partition, in order
    probes,          \* observation: how the count probes of this window ended
    \* ---- graphql_post's frame ----
    gpc,             \* position inside graphql_post
    attempt,
    result,          \* the value graphql_post returned
    posts,           \* calls of graphql_post so far
    attempts,        \* observation: the HTTP requests of this call and their outcomes
    waits            \* observation: the sleeps of this call, in seconds

dbVars     == <<repositories, stars_history, checkpoints>>
frameVars  == <<pc, max_from_partition, cursor, already, fetched, batch, page, edge, resp, slept>>
ghostVars  == <<runs, prevMax, prevKilled, calls, credits, histAtStart, cursorAtStart>>
reqVars    == <<rl, reqCursor, raised>>
dbObs      == <<dbCalls, saved, latest, lastOp>>
planVars   == <<ppc, total_target, start, end, current, collected, window_days,
               window_start, window_end, count, to_fetch, partitions, probes>>
postVars   == <<gpc, attempt, result, posts, attempts, waits>>
vars       == <<dbVars, remote, frameVars, ghostVars, reqVars, dbObs, planVars, postVars>>

\* ------------------------------------------------------------------
\* Bounds of the model
\* ------------------------------------------------------------------
MaxRuns  == 2                      \* invocations of crawl_partition per behaviour
Remotes  == { [pageSize |-> 50,  total |-> 120],
              [pageSize |-> 100, total |-> 120],
              [pageSize |-> 100, total |-> 40],
              [pageSize |-> 20,  total |-> 45],
              [pageSize |-> 100, total |-> 0] }
Targets  == { 30, 70, 120 }
ResetDelays == { -7000, 60000 }    \* milliseconds from now to rateLimit.resetAt
Zones    == { "Z", "naive" }       \* zone designator of rateLimit.resetAt
MaxPosts == 2                      \* calls of graphql_post per behaviour
TransportErrors == { "ConnectionError", "Timeout", "HTTPError" }
Bodies   == { [data |-> "page", errors |-> "none"],    \* a result
              [data |-> "none", errors |-> "e1"],      \* errors only
              [data |-> "part", errors |-> "e2"] }     \* partial data and errors
MaxDbCalls == 3                    \* direct calls of db.py per behaviour
Keys     == { "k1", "k2" }         \* partition keys of the direct calls
Cursors  == { << >>, <<"c1">> }    \* end cursors of the direct calls
Deltas   == { 1, 2 }               \* fetched_count arguments of the direct calls
EntityIds == { 1, 2 }
Versions == { 0, 1 }               \* two fetches of one entity differ in every field
RangeDays == 12                    \* days from start to end; the program's range is
                                   \* 365*5 days, which has the same remainder modulo 7
PlanTargets == { 1000, 2500 }      \* total_target
Counts   == { 0, 1000, 1001 }      \* repositoryCount a probe can return
PriorCounts == { 0, 1000, 1200 }       \* fetched_count a partition's checkpoint row can hold
Avails   == { 0, 2000 }            \* results the remote holds past the checkpoint's cursor
ProbeFailures == { "errors", "exhausted" }   \* ways fetch_partition_count raises

\* ------------------------------------------------------------------
\* Values
\* ------------------------------------------------------------------
None == << >>                      \* Python None / SQL NULL
NoBody == [data |-> "none", errors |-> "none"]   \* no JSON body
Min(a, b) == IF a < b THEN a ELSE b
Max(a, b) == IF a > b THEN a ELSE b

\* ------------------------------------------------------------------
\* db.py
\* ------------------------------------------------------------------
\* INSERT ... ON CONFLICT (repo_id) DO UPDATE SET stars, forks, language,
\* description: one statement of bulk_upsert's first execute_batch.
upsert_row_do_nothing(table, r) ==
    IF \E x \in table : x.repo_id = r.repo_id THEN table ELSE table \cup {r}

upsert_row(table, r) ==
    IF \E x \in table : x.repo_id = r.repo_id
    THEN { IF x.repo_id = r.repo_id
           THEN [x EXCEPT !.stars = r.stars, !.forks = r.forks,
                          !.language = r.language, !.description = r.description]
           ELSE x : x \in table }
    ELSE table \cup {r}

\* execute_batch runs the statement once per element, in order.
RECURSIVE execute_batch_repos(_, _)
execute_batch_repos(table, repos) ==
    IF repos = << >> THEN table
    ELSE execute_batch_repos(upsert_row(table, Head(repos)), Tail(repos))

history_rows(repos) ==
    [i \in 1..Len(repos) |-> [repo_id |-> repos[i].repo_id, stars |-> repos[i].stars]]

\* bulk_upsert: the two tables after the committed transaction.
bulk_upsert_repositories(table, repos) ==
    IF repos = << >> THEN table ELSE execute_batch_repos(table, repos)

bulk_upsert_history(hist, repos) ==
    IF repos = << >> THEN hist ELSE hist \o history_rows(repos)

save_checkpoint_overwrite(cp, key, end_cursor, fetched_count) ==
    (IF key \in DOMAIN cp THEN [k \in DOMAIN cp \ {key} |-> cp[k]] ELSE cp)
      @@ (key :> [end_cursor |-> end_cursor, fetched_count |-> fetched_count])

save_checkpoint(cp, key, end_cursor, fetched_count) ==
    IF key \in DOMAIN cp
    THEN [cp EXCEPT ![key] = [end_cursor    |-> end_cursor,
                              fetched_count |-> @.fetched_count + fetched_count]]
    ELSE cp @@ (key :> [end_cursor |-> end_cursor, fetched_count |-> fetched_count])

get_checkpoint(cp, key) ==
    IF key \in DOMAIN cp THEN cp[key]
    ELSE [end_cursor |-> None, fetched_count |-> 0]

\* ------------------------------------------------------------------
\* The remote search service, as crawl_partition sees it
\* ------------------------------------------------------------------
\* The i-th result of the partition's result sequence.
Node(i) ==
    [ databaseId |-> i, id |-> i, name |-> i, stargazerCount |-> i % 3,
      forkCount |-> 0, primaryLanguage |-> "Python", description |-> "NULL" ]

Offset(c) == IF c = None THEN 0 ELSE c[1]

\* search(first, after: cursor): the page after the cursor.
SearchPage(r, c) ==
    LET lo == Offset(c) + 1
        hi == Min(Offset(c) + r.pageSize, r.total)
    IN  [ edges       |-> [k \in 1..(IF hi >= lo THEN hi - lo + 1 ELSE 0) |-> Node(lo + k - 1)],
          hasNextPage |-> hi < r.total,
          endCursor   |-> IF hi >= lo THEN <<hi>> ELSE None ]

\* ------------------------------------------------------------------
\* crawler.py
\* ------------------------------------------------------------------
batch_size_25 == 50 \div 2
batch_size == 50

PartitionKey == "p"

parse_repo_node(node) ==
    \* a missing or zero databaseId is falsy: "databaseId or id"
    [ repo_id     |-> IF node.databaseId # 0 THEN node.databaseId ELSE node.id,
      name        |-> node.name,
      stars       |-> node.stargazerCount,
      forks       |-> node.forkCount,
      language    |-> node.primaryLanguage,
      description |-> node.description ]

LoopTestInclusive(f, m) == IF f <= m THEN "request" ELSE "done"

\* while fetched < max_from_partition
LoopTest(f, m) == IF f < m THEN "request" ELSE "done"

NoPage == [edges |-> << >>, hasNextPage |-> FALSE, endCursor |-> None]

\* Where the for-loop over the edges goes after one edge was handled
\* (lines 131-132 and the end of the iteration).
AfterEdge(f, m, e, pg) ==
    IF f >= m \/ e >= Len(pg.edges) THEN "pageinfo" ELSE "edges"

RepoIds(b) == { b[i].repo_id : i \in 1..Len(b) }

Credit(cr, b) ==
    [ id \in DOMAIN cr \cup RepoIds(b) |->
        (IF id \in DOMAIN cr THEN cr[id] ELSE 0)
        + Cardinality({ i \in 1..Len(b) : b[i].repo_id = id }) ]

\* rateLimit as the responses carry it; resetAt is an ISO-8601 string,
\* "Z"-suffixed as GitHub sends it, or without a zone designator.
NoRateLimit == [present |-> FALSE, remaining |-> 0, until |-> 0, zone |-> "Z"]
RateLimits ==
    { NoRateLimit, [present |-> TRUE, remaining |-> 10, until |-> 60000, zone |-> "Z"] }
    \cup { [present |-> TRUE, remaining |-> 9, until |-> u, zone |-> z] :
             u \in ResetDelays, z \in Zones }

\* lines 107-110: if rl: ... if rem is not None and rem < 10
LowBudgetAlways(t) == t.present

LowBudget(t) == t.present /\ t.remaining < 10

\* line 111: fromisoformat(reset.replace("Z", "+00:00")) is offset-aware
\* exactly when the string carries a zone designator.
ResetIsAware(t) == t.zone = "Z"

\* line 112: reset_ts - datetime.utcnow(); utcnow() is offset-naive, and
\* Python refuses to subtract a naive datetime from an aware one.
SubtractRaises(t) == ResetIsAware(t)

\* line 112: max(5, seconds to reset + 5), in milliseconds
RateLimitWait(untilReset) == Max(5000, untilReset + 5000)

\* crawl_partition(partition_key, query, max_from_partition): lines 89-95
\* and the first test of the while loop.
Start(m) ==
    /\ pc \in {"idle", "killed", "done", "failed"}
    /\ runs < MaxRuns
    /\ LET checkpoint == get_checkpoint(checkpoints, PartitionKey)
       IN  /\ cursor'  = checkpoint.end_cursor
           /\ already' = checkpoint.fetched_count
           /\ fetched' = checkpoint.fetched_count
           /\ pc'      = LoopTest(checkpoint.fetched_count, m)
    /\ max_from_partition' = m
    /\ batch' = << >>
    /\ page' = NoPage
    /\ edge' = 0
    /\ resp' = "none"
    /\ slept' = <<"none", 0>>
    /\ runs' = runs + 1
    /\ prevMax' = max_from_partition
    /\ prevKilled' = (pc = "killed")
    /\ calls' = << >>
    /\ histAtStart' = Len(stars_history)
    /\ cursorAtStart' = get_checkpoint(checkpoints, PartitionKey).end_cursor
    /\ rl' = NoRateLimit
    /\ reqCursor' = None
    /\ raised' = "none"
    /\ UNCHANGED <<dbVars, remote, credits>>
    /\ UNCHANGED <<dbObs, planVars, postVars>>

\* graphql_post returned a body with "errors": sleep 10 s, same page again.
RequestErrors ==
    /\ pc = "request"
    /\ resp' = "errors"
    /\ rl' = NoRateLimit
    /\ reqCursor' = cursor
    /\ slept' = <<"errors", 10000>>
    /\ pc' = LoopTest(fetched, max_from_partition)
    /\ UNCHANGED <<dbVars, remote, max_from_partition, cursor, already, fetched,
                   batch, page, edge, ghostVars, raised>>
    /\ UNCHANGED <<dbObs, planVars, postVars>>

\* rateLimit.remaining < 10 (lines 107-115): the wait is computed from
\* resetAt, slept, and the same page is requested again; the computation
\* raises TypeError when resetAt is offset-aware.
RequestRateLimited(t) ==
    /\ pc = "request"
    /\ LowBudget(t)
    /\ resp' = "rate"
    /\ rl' = t
    /\ reqCursor' = cursor
    /\ IF SubtractRaises(t)
       THEN /\ raised' = "TypeError"
            /\ pc' = "failed"
            /\ slept' = slept
       ELSE /\ raised' = raised
            /\ pc' = LoopTest(fetched, max_from_partition)
            /\ slept' = <<"rate", RateLimitWait(t.until)>>
    /\ UNCHANGED <<dbVars, remote, max_from_partition, cursor, already, fetched,
                   batch, page, edge, ghostVars>>
    /\ UNCHANGED <<dbObs, planVars, postVars>>

\* graphql_post exhausted its retries: RuntimeError leaves crawl_partition.
RequestFatal ==
    /\ pc = "request"
    /\ pc' = "failed"
    /\ resp' = "fatal"
    /\ rl' = NoRateLimit
    /\ reqCursor' = cursor
    /\ raised' = "RuntimeError"
    /\ UNCHANGED <<dbVars, remote, max_from_partition, cursor, already, fetched,
                   batch, page, edge, slept, ghostVars>>
    /\ UNCHANGED <<dbObs, planVars, postVars>>

\* A usable page: start the for-loop over its edges.
RequestOk(t) ==
    /\ pc = "request"
    /\ ~LowBudget(t)
    /\ resp' = "ok"
    /\ rl' = t
    /\ reqCursor' = cursor
    /\ slept' = <<"none", 0>>
    /\ page' = SearchPage(remote, cursor)
    /\ edge' = 1
    /\ pc' = IF Len(SearchPage(remote, cursor).edges) = 0 THEN "pageinfo" ELSE "edges"
    /\ UNCHANGED <<dbVars, remote, max_from_partition, cursor, already, fetched,
                   batch, ghostVars, raised>>
    /\ UNCHANGED <<dbObs, planVars, postVars>>

\* One iteration of "for e in edges" up to the batch-size test.
Edge ==
    /\ pc = "edges"
    /\ batch' = Append(batch, parse_repo_node(page.edges[edge]))
    /\ fetched' = fetched + 1
    /\ IF Len(batch) + 1 >= batch_size
       THEN pc' = "flush_upsert" /\ edge' = edge
       ELSE /\ pc' = AfterEdge(fetched + 1, max_from_partition, edge, page)
            /\ edge' = IF AfterEdge(fetched + 1, max_from_partition, edge, page) = "edges"
                       THEN edge + 1 ELSE edge
    /\ UNCHANGED <<dbVars, remote, max_from_partition, cursor, already, page,
                   resp, slept, ghostVars>>
    /\ UNCHANGED <<dbObs, planVars, postVars, reqVars>>

\* bulk_upsert(batch) committed (line 126 or 140).
UpsertOk(here, next) ==
    /\ pc = here
    /\ repositories' = bulk_upsert_repositories(repositories, batch)
    /\ stars_history' = bulk_upsert_history(stars_history, batch)
    /\ calls' = Append(calls, <<"bulk_upsert", Len(batch)>>)
    /\ pc' = next
    /\ UNCHANGED <<checkpoints, remote, max_from_partition, cursor, already, fetched,
                   batch, page, edge, resp, slept, runs, prevMax, prevKilled,
                   credits, histAtStart, cursorAtStart>>
    /\ UNCHANGED <<dbObs, planVars, postVars, reqVars>>

\* A database call raised: nothing in crawl_partition catches it.
OnDbErrorSwallowed(here) ==
    IF here = "flush_upsert" THEN "flush_ckpt"
    ELSE IF here = "final_upsert" THEN "final_ckpt" ELSE "failed"

OnDbError(here) == "failed"

\* A database call raised: the exception leaves crawl_partition, the
\* transaction is rolled back.
DbError(here) ==
    /\ pc = here
    /\ pc' = OnDbError(here)
    /\ raised' = IF OnDbError(here) = "failed" THEN "DatabaseError" ELSE raised
    /\ UNCHANGED <<dbVars, remote, max_from_partition, cursor, already, fetched,
                   batch, page, edge, resp, slept, ghostVars, rl, reqCursor>>
    /\ UNCHANGED <<dbObs, planVars, postVars>>

\* save_checkpoint(partition_key, cursor, len(batch)); batch = []
\* (lines 127-129 or 141-143).
CheckpointOk(here, next) ==
    /\ pc = here
    /\ checkpoints' = save_checkpoint(checkpoints, PartitionKey, cursor, Len(batch))
    /\ calls' = Append(calls, <<"save_checkpoint", cursor, Len(batch),
           get_checkpoint(save_checkpoint(checkpoints, PartitionKey, cursor, Len(batch)),
                          PartitionKey).fetched_count>>)
    /\ credits' = Credit(credits, batch)
    /\ batch' = << >>
    /\ pc' = next
    /\ UNCHANGED <<repositories, stars_history, remote, max_from_partition, cursor,
                   already, fetched, page, resp, slept, runs, prevMax,
                   prevKilled, histAtStart, cursorAtStart>>
    /\ UNCHANGED <<dbObs, planVars, postVars, reqVars>>

FlushUpsert == UpsertOk("flush_upsert", "flush_ckpt")

FlushCheckpoint ==
    /\ CheckpointOk("flush_ckpt", AfterEdge(fetched, max_from_partition, edge, page))
    /\ edge' = IF AfterEdge(fetched, max_from_partition, edge, page) = "edges"
               THEN edge + 1 ELSE edge

\* lines 134-147: pageInfo, the final flush's test, the polite pause and
\* the next test of the while loop.
PageInfo ==
    /\ pc = "pageinfo"
    /\ IF page.hasNextPage
       THEN /\ cursor' = page.endCursor
            /\ slept' = <<"polite", 500>>
            /\ pc' = LoopTest(fetched, max_from_partition)
       ELSE /\ cursor' = cursor
            /\ slept' = slept
            /\ pc' = IF batch # << >> THEN "final_upsert" ELSE "done"
    /\ UNCHANGED <<dbVars, remote, max_from_partition, already, fetched, batch,
                   page, edge, resp, ghostVars>>
    /\ UNCHANGED <<dbObs, planVars, postVars, reqVars>>

FinalUpsert == UpsertOk("final_upsert", "final_ckpt")

FinalCheckpoint == CheckpointOk("final_ckpt", "done") /\ edge' = edge

Running == pc \in {"request", "edges", "flush_upsert", "flush_ckpt", "pageinfo",
                   "final_upsert", "final_ckpt"}

\* The process is killed: the frame is gone, the database stays.
Kill ==
    /\ Running
    /\ pc' = "killed"
    /\ cursor' = None
    /\ fetched' = 0
    /\ already' = 0
    /\ batch' = << >>
    /\ page' = NoPage
    /\ edge' = 0
    /\ resp' = "none"
    /\ slept' = <<"none", 0>>
    /\ rl' = NoRateLimit
    /\ reqCursor' = None
    /\ raised' = "none"
    /\ UNCHANGED <<dbVars, remote, max_from_partition, ghostVars>>
    /\ UNCHANGED <<dbObs, planVars, postVars>>

\* State of the variables a specification does not use.
DbIdle ==
    /\ repositories = {}
    /\ stars_history = << >>
    /\ checkpoints = << >>

CrawlIdle ==
    /\ remote = [pageSize |-> 100, total |-> 0]
    /\ pc = "idle"
    /\ max_from_partition = 0
    /\ cursor = None
    /\ already = 0
    /\ fetched = 0
    /\ batch = << >>
    /\ page = NoPage
    /\ edge = 0
    /\ resp = "none"
    /\ slept = <<"none", 0>>
    /\ runs = 0
    /\ prevMax = 0
    /\ prevKilled = FALSE
    /\ calls = << >>
    /\ credits = << >>
    /\ histAtStart = 0
    /\ cursorAtStart = None
    /\ rl = NoRateLimit
    /\ reqCursor = None
    /\ raised = "none"

DbObsIdle ==
    /\ dbCalls = 0
    /\ saved = << >>
    /\ latest = << >>
    /\ lastOp = <<"none">>

PlanIdle ==
    /\ ppc = "idle"
    /\ total_target = 0
    /\ start = 0
    /\ end = 0
    /\ current = 0
    /\ collected = 0
    /\ window_days = 0
    /\ window_start = 0
    /\ window_end = 0
    /\ count = 0
    /\ to_fetch = 0
    /\ partitions = << >>
    /\ probes = << >>

PostIdle ==
    /\ gpc = "idle"
    /\ attempt = 0
    /\ result = NoBody
    /\ posts = 0
    /\ attempts = << >>
    /\ waits = << >>

Init ==
    /\ DbIdle
    /\ remote \in Remotes
    /\ pc = "idle"
    /\ max_from_partition = 0
    /\ cursor = None
    /\ already = 0
    /\ fetched = 0
    /\ batch = << >>
    /\ page = NoPage
    /\ edge = 0
    /\ resp = "none"
    /\ slept = <<"none", 0>>
    /\ runs = 0
    /\ prevMax = 0
    /\ prevKilled = FALSE
    /\ calls = << >>
    /\ credits = << >>
    /\ histAtStart = 0
    /\ cursorAtStart = None
    /\ rl = NoRateLimit
    /\ reqCursor = None
    /\ raised = "none"
    /\ DbObsIdle
    /\ PlanIdle
    /\ PostIdle

Next ==
    \/ \E m \in Targets : Start(m)
    \/ RequestErrors
    \/ \E t \in RateLimits : RequestRateLimited(t)
    \/ RequestFatal
    \/ \E t \in RateLimits : RequestOk(t)
    \/ Edge
    \/ FlushUpsert
    \/ FlushCheckpoint
    \/ PageInfo
    \/ FinalUpsert
    \/ FinalCheckpoint
    \/ \E here \in {"flush_upsert", "flush_ckpt", "final_upsert", "final_ckpt"} : DbError(here)
    \/ Kill

Spec == Init /\ [][Next]_vars

\* ------------------------------------------------------------------
\* Direct calls of db.py with arbitrary arguments
\* ------------------------------------------------------------------
\* What a fetch of entity id returns at version v.
Entity(id, v) ==
    [ repo_id |-> id, name |-> v, stars |-> v, forks |-> v + 1,
      language |-> IF v = 0 THEN "Python" ELSE "C",
      description |-> IF v = 0 THEN "NULL" ELSE "text" ]

Entities == { Entity(id, v) : id \in EntityIds, v \in Versions }
Batches  == { << >> } \cup { <<a>> : a \in Entities }
                     \cup { <<a, b>> : a \in Entities, b \in Entities }

\* The last element of repos for each repo_id in it, over what was known.
LatestAfter(known, repos) ==
    [ id \in DOMAIN known \cup RepoIds(repos) |->
        IF id \in RepoIds(repos)
        THEN repos[CHOOSE i \in 1..Len(repos) :
                     /\ repos[i].repo_id = id
                     /\ \A j \in (i+1)..Len(repos) : repos[j].repo_id # id]
        ELSE known[id] ]

SavedAfter(sv, key, end_cursor, delta) ==
    [ k \in DOMAIN sv \cup {key} |->
        IF k # key THEN sv[k]
        ELSE [ sum    |-> (IF key \in DOMAIN sv THEN sv[key].sum ELSE 0) + delta,
               cursor |-> end_cursor,
               n      |-> (IF key \in DOMAIN sv THEN sv[key].n ELSE 0) + 1 ] ]

DbBulkUpsert(repos) ==
    /\ dbCalls < MaxDbCalls
    /\ repositories' = bulk_upsert_repositories(repositories, repos)
    /\ stars_history' = bulk_upsert_history(stars_history, repos)
    /\ latest' = LatestAfter(latest, repos)
    /\ lastOp' = <<"bulk_upsert", Len(repos)>>
    /\ dbCalls' = dbCalls + 1
    /\ UNCHANGED <<checkpoints, saved, remote, frameVars, ghostVars, reqVars, planVars, postVars>>

DbSaveCheckpoint(key, end_cursor, delta) ==
    /\ dbCalls < MaxDbCalls
    /\ checkpoints' = save_checkpoint(checkpoints, key, end_cursor, delta)
    /\ saved' = SavedAfter(saved, key, end_cursor, delta)
    /\ lastOp' = <<"save_checkpoint", key>>
    /\ dbCalls' = dbCalls + 1
    /\ UNCHANGED <<repositories, stars_history, latest, remote, frameVars, ghostVars,
                   reqVars, planVars, postVars>>

InitDb == DbIdle /\ CrawlIdle /\ DbObsIdle /\ PlanIdle /\ PostIdle

NextDb ==
    \/ \E repos \in Batches : DbBulkUpsert(repos)
    \/ \E key \in Keys, c \in Cursors, d \in Deltas : DbSaveCheckpoint(key, c, d)

SpecDb == InitDb /\ [][NextDb]_vars

\* C6: after any sequence of save_checkpoint calls from an absent row,
\* get_checkpoint returns the sum of the deltas and the most recent
\* cursor; fetched_count never decreases; a call leaves the rows of the
\* other keys unchanged.
C6_CheckpointStep ==
    /\ \A k \in Keys :
          get_checkpoint(checkpoints', k) =
             IF k \in DOMAIN saved'
             THEN [end_cursor |-> saved'[k].cursor, fetched_count |-> saved'[k].sum]
             ELSE [end_cursor |-> None, fetched_count |-> 0]
    /\ \A k \in Keys :
          get_checkpoint(checkpoints', k).fetched_count
             >= get_checkpoint(checkpoints, k).fetched_count
    /\ lastOp'[1] = "save_checkpoint" =>
          \A k \in Keys \ {lastOp'[2]} :
             /\ (k \in DOMAIN checkpoints') = (k \in DOMAIN checkpoints)
             /\ get_checkpoint(checkpoints', k) = get_checkpoint(checkpoints, k)

C6_CheckpointMonotone == [][C6_CheckpointStep]_vars

C6_Witness ==
    /\ "k1" \in DOMAIN saved /\ saved["k1"].n >= 2
    /\ "k2" \in DOMAIN checkpoints
    /\ lastOp = <<"save_checkpoint", "k1">>
    /\ checkpoints["k1"].fetched_count >= 3

\* C7: the repositories table holds exactly one row per repo_id ever
\* upserted, carrying the stars, forks and description of the most
\* recent upsert of that repo_id.
C7_IdempotentUpsert ==
    /\ { r.repo_id : r \in repositories } = DOMAIN latest
    /\ \A id \in DOMAIN latest :
          /\ Cardinality({ r \in repositories : r.repo_id = id }) = 1
          /\ \A r \in repositories :
                r.repo_id = id =>
                   /\ r.stars = latest[id].stars
                   /\ r.forks = latest[id].forks
                   /\ r.description = latest[id].description

\* reached: an entity upserted again with other stars, forks and description
C7_Witness ==
    \E r \in repositories :
        /\ r.repo_id \in DOMAIN latest
        /\ r.name # latest[r.repo_id].name
        /\ r.stars = latest[r.repo_id].stars
        /\ Len(stars_history) >= 2

\* ------------------------------------------------------------------
\* partition_and_crawl
\* ------------------------------------------------------------------
\* What crawl_partition returns when it returns: fetched starts at the
\* checkpoint's count and grows by one per record until it reaches
\* max_from_partition or the pages run out.
crawl_partition_returns(ckptCount, avail, m) ==
    IF ckptCount >= m THEN ckptCount ELSE Min(m, ckptCount + avail)

\* current = window_end + timedelta(days=1)
NextCurrentSameDay(we) == we

NextCurrent(we) == we + 1

\* The while test of partition_and_crawl.
PlanLoopTest(cur, e, coll, target) == cur < e /\ coll < target

\* partition_and_crawl(total_target): lines 158-161.
PlanStart(target) ==
    /\ ppc = "idle"
    /\ total_target' = target
    /\ end' = RangeDays
    /\ start' = 0
    /\ current' = 0
    /\ collected' = 0
    /\ ppc' = "loop"
    /\ UNCHANGED <<window_days, window_start, window_end, count, to_fetch, partitions,
                   probes>>
    /\ UNCHANGED <<dbVars, remote, frameVars, ghostVars, reqVars, dbObs, postVars>>

\* lines 163-168: the while test and the weekly window.
PlanWindow ==
    /\ ppc = "loop"
    /\ IF PlanLoopTest(current, end, collected, total_target)
       THEN /\ window_days' = 7
            /\ window_start' = current
            /\ window_end' = Min(end, current + 7 - 1)
            /\ probes' = << >>
            /\ ppc' = "probe"
       ELSE /\ ppc' = "done"
            /\ UNCHANGED <<window_days, window_start, window_end, probes>>
    /\ UNCHANGED <<total_target, start, end, current, collected, count, to_fetch,
                   partitions>>
    /\ UNCHANGED <<dbVars, remote, frameVars, ghostVars, reqVars, dbObs, postVars>>

\* lines 178-190 once count is known for the weekly window.
AfterWeeklyCount(c) ==
    IF c > 1000 /\ window_days > 1
    THEN /\ window_days' = 1
         /\ window_end' = window_start
         /\ to_fetch' = to_fetch
         /\ ppc' = "reprobe"
    ELSE /\ window_days' = window_days
         /\ window_end' = window_end
         /\ to_fetch' = Min(c, total_target - collected)
         /\ ppc' = "crawl"

\* lines 170-171: fetch_partition_count returned c.
ProbeOk(c) ==
    /\ ppc = "probe"
    /\ probes' = Append(probes, "ok")
    /\ count' = c
    /\ AfterWeeklyCount(c)
    /\ UNCHANGED <<total_target, start, end, current, collected, window_start, partitions>>
    /\ UNCHANGED <<dbVars, remote, frameVars, ghostVars, reqVars, dbObs, postVars>>

\* lines 172-175: fetch_partition_count raised, count = 1000.
ProbeFailed(why) ==
    /\ ppc = "probe"
    /\ probes' = Append(probes, why)
    /\ count' = 1000
    /\ AfterWeeklyCount(1000)
    /\ UNCHANGED <<total_target, start, end, current, collected, window_start, partitions>>
    /\ UNCHANGED <<dbVars, remote, frameVars, ghostVars, reqVars, dbObs, postVars>>

\* lines 184-190: the one-day re-probe returned c.
ReprobeOk(c) ==
    /\ ppc = "reprobe"
    /\ probes' = Append(probes, "ok")
    /\ count' = c
    /\ to_fetch' = Min(c, total_target - collected)
    /\ ppc' = "crawl"
    /\ UNCHANGED <<total_target, start, end, current, collected, window_days,
                   window_start, window_end, partitions>>
    /\ UNCHANGED <<dbVars, remote, frameVars, ghostVars, reqVars, dbObs, postVars>>

\* line 187: count = min(1000, count)
ReprobeFallbackKeep(c) == c

ReprobeFallback(c) == Min(1000, c)

\* lines 186-190: the one-day re-probe raised.
ReprobeFailed(why) ==
    /\ ppc = "reprobe"
    /\ probes' = Append(probes, why)
    /\ count' = ReprobeFallback(count)
    /\ to_fetch' = Min(ReprobeFallback(count), total_target - collected)
    /\ ppc' = "crawl"
    /\ UNCHANGED <<total_target, start, end, current, collected, window_days,
                   window_start, window_end, partitions>>
    /\ UNCHANGED <<dbVars, remote, frameVars, ghostVars, reqVars, dbObs, postVars>>

\* lines 192-199: crawl_partition returned; collected and current advance.
CrawlReturned(ckptCount, avail) ==
    /\ ppc = "crawl"
    /\ partitions' = Append(partitions, [from |-> window_start, to |-> window_end])
    /\ collected' = collected + crawl_partition_returns(ckptCount, avail, to_fetch)
    /\ current' = NextCurrent(window_end)
    /\ ppc' = "loop"
    /\ UNCHANGED <<total_target, start, end, window_days, window_start, window_end,
                   count, to_fetch, probes>>
    /\ UNCHANGED <<dbVars, remote, frameVars, ghostVars, reqVars, dbObs, postVars>>

\* line 193: crawl_partition raised (graphql_post gave up, or the
\* database failed); nothing in partition_and_crawl catches it.
CrawlRaised ==
    /\ ppc = "crawl"
    /\ partitions' = Append(partitions, [from |-> window_start, to |-> window_end])
    /\ ppc' = "aborted"
    /\ UNCHANGED <<total_target, start, end, current, collected, window_days,
                   window_start, window_end, count, to_fetch, probes>>
    /\ UNCHANGED <<dbVars, remote, frameVars, ghostVars, reqVars, dbObs, postVars>>

InitPlan == DbIdle /\ CrawlIdle /\ DbObsIdle /\ PlanIdle /\ PostIdle

NextPlan ==
    \/ \E target \in PlanTargets : PlanStart(target)
    \/ PlanWindow
    \/ \E c \in Counts : ProbeOk(c)
    \/ \E why \in ProbeFailures : ProbeFailed(why)
    \/ \E c \in Counts : ReprobeOk(c)
    \/ \E why \in ProbeFailures : ReprobeFailed(why)
    \/ \E ckptCount \in PriorCounts, avail \in Avails : CrawlReturned(ckptCount, avail)
    \/ CrawlRaised

SpecPlan == InitPlan /\ [][NextPlan]_vars

Days(p) == p.from .. p.to

\* C9: the emitted partitions are pairwise non-overlapping and
\* contiguous: the first starts at the range start and each later one
\* starts one day after the end of the one before it.
C9_PartitionsContiguous ==
    /\ partitions # << >> => partitions[1].from = start
    /\ \A i \in 1..Len(partitions) : partitions[i].from <= partitions[i].to
    /\ \A i \in 2..Len(partitions) : partitions[i].from = partitions[i-1].to + 1
    /\ \A i, j \in 1..Len(partitions) :
          i # j => Days(partitions[i]) \cap Days(partitions[j]) = {}

\* reached: a weekly window, then a one-day fallback window, then more
C9_Witness ==
    /\ Len(partitions) >= 3
    /\ partitions[1].to = partitions[1].from + 6
    /\ partitions[2].to = partitions[2].from
    /\ ppc = "loop"

\* C10: when partition_and_crawl stops because the range is exhausted,
\* the emitted partitions cover every day from start to end inclusive.
C10_RangeCovered ==
    (ppc = "done" /\ collected < total_target)
        => UNION { Days(partitions[i]) : i \in 1..Len(partitions) } = start .. end

\* C14: a failed count probe never ends partition_and_crawl: after a
\* failed weekly probe the count is 1000 and the weekly window is
\* crawled; after a failed one-day re-probe the count is 1000 and the
\* one-day window is crawled.
C14_ProbeFailureNotFatal ==
    /\ ppc = "reprobe" => probes = <<"ok">>
    /\ (ppc = "crawl" /\ probes[1] # "ok") =>
          /\ Len(probes) = 1
          /\ count = 1000
          /\ window_end = Min(end, window_start + 6)
          /\ to_fetch = Min(1000, total_target - collected)
    /\ (ppc = "crawl" /\ Len(probes) = 2 /\ probes[2] # "ok") =>
          /\ count = 1000
          /\ window_end = window_start
          /\ to_fetch = Min(1000, total_target - collected)
    /\ ppc = "aborted" =>
          /\ partitions # << >>
          /\ partitions[Len(partitions)].from = window_start
          /\ partitions[Len(partitions)].to = window_end

\* reached: the weekly probe counted more than 1000, the one-day
\* re-probe failed, and the one-day window is about to be crawled
C14_Witness ==
    /\ ppc = "crawl"
    /\ probes = <<"ok", "exhausted">>
    /\ count = 1000
    /\ window_end = window_start
    /\ partitions # << >>

\* C18: every partition handed to crawl_partition asks for at most
\* 1000 records.
C18_PartitionCeiling == ppc = "crawl" => to_fetch <= 1000

\* C20: collected never exceeds total_target.
C20_GlobalTargetBound == collected <= total_target

\* ------------------------------------------------------------------
\* graphql_post
\* ------------------------------------------------------------------
max_retries == 6

\* line 54: wait = min(60, 2 ** attempt)
backoff_uncapped(a) == 2 ^ a

backoff(a) == Min(60, 2 ^ a)

\* lines 50-52: a body with "errors" is returned as {"errors": ...}
\* and any other body as it is; both leave the retry loop.
on_body_retry_errors(body) == IF body.errors # "none" THEN "retry" ELSE "return"

on_body(body) == "return"

returned_value(body) ==
    IF body.errors # "none" THEN [data |-> "none", errors |-> body.errors] ELSE body

\* After a failed attempt: the next turn of the for loop, or line 57.
AfterFailure(a) == IF a < max_retries THEN "attempt" ELSE "raised"

\* graphql_post(query, variables): lines 43-44.
PostStart ==
    /\ gpc \in {"idle", "returned", "raised"}
    /\ posts < MaxPosts
    /\ posts' = posts + 1
    /\ attempt' = 1
    /\ result' = NoBody
    /\ attempts' = << >>
    /\ waits' = << >>
    /\ gpc' = IF 1 <= max_retries THEN "attempt" ELSE "raised"
    /\ UNCHANGED <<dbVars, remote, frameVars, ghostVars, reqVars, dbObs, planVars>>

\* lines 46-47 raise a RequestException; lines 53-56 sleep.
PostAttemptFails(e) ==
    /\ gpc = "attempt"
    /\ attempts' = Append(attempts, [outcome |-> e, body |-> NoBody])
    /\ waits' = Append(waits, backoff(attempt))
    /\ gpc' = AfterFailure(attempt)
    /\ attempt' = IF AfterFailure(attempt) = "attempt" THEN attempt + 1 ELSE attempt
    /\ UNCHANGED <<result, posts>>
    /\ UNCHANGED <<dbVars, remote, frameVars, ghostVars, reqVars, dbObs, planVars>>

\* lines 46-52: the request succeeded and its JSON body was read.
PostAttemptAnswered(body) ==
    /\ gpc = "attempt"
    /\ attempts' = Append(attempts, [outcome |-> "ok", body |-> body])
    /\ IF on_body(body) = "return"
       THEN /\ result' = returned_value(body)
            /\ gpc' = "returned"
            /\ UNCHANGED <<attempt, waits>>
       ELSE /\ waits' = Append(waits, backoff(attempt))
            /\ gpc' = AfterFailure(attempt)
            /\ attempt' = IF AfterFailure(attempt) = "attempt" THEN attempt + 1 ELSE attempt
            /\ UNCHANGED result
    /\ UNCHANGED posts
    /\ UNCHANGED <<dbVars, remote, frameVars, ghostVars, reqVars, dbObs, planVars>>

InitPost == DbIdle /\ CrawlIdle /\ DbObsIdle /\ PlanIdle /\ PostIdle

NextPost ==
    \/ PostStart
    \/ \E e \in TransportErrors : PostAttemptFails(e)
    \/ \E body \in Bodies : PostAttemptAnswered(body)

SpecPost == InitPost /\ [][NextPost]_vars

Failed(k) == attempts[k].outcome # "ok"

\* C12: one call issues at most 6 HTTP requests; the sleep after the
\* k-th failed attempt is min(60, 2^k) seconds; when every attempt
\* failed the call raises and returns nothing; it returns at the first
\* attempt that succeeds.
C12_BoundedRetry ==
    /\ Len(attempts) <= 6
    /\ Len(waits) = Cardinality({ k \in 1..Len(attempts) : Failed(k) })
    /\ \A k \in 1..Len(waits) : waits[k] = Min(60, 2 ^ k)
    /\ gpc = "raised" =>
          /\ Len(attempts) = 6
          /\ \A k \in 1..6 : Failed(k)
          /\ result = NoBody
    /\ (Len(attempts) = 6 /\ \A k \in 1..6 : Failed(k)) => gpc = "raised"
    /\ \A k \in 1..Len(attempts) :
          ~Failed(k) => (k = Len(attempts) /\ gpc = "returned")

C12_Witness ==
    /\ gpc = "raised"
    /\ Len(attempts) = 6
    /\ waits[6] = 60

\* C13: an answered request whose body carries errors ends the call:
\* no further request is made and the returned value carries the errors.
C13_NoRetryOnErrors ==
    \A k \in 1..Len(attempts) :
        (attempts[k].outcome = "ok" /\ attempts[k].body.errors # "none")
            => /\ k = Len(attempts)
               /\ gpc = "returned"
               /\ result.errors = attempts[k].body.errors

C13_Witness ==
    /\ gpc = "returned"
    /\ Len(attempts) = 3
    /\ Failed(1) /\ Failed(2)
    /\ result.errors = "e2"

\* ------------------------------------------------------------------
\* Properties of crawl_partition
\* ------------------------------------------------------------------
StoredCount == get_checkpoint(checkpoints, PartitionKey).fetched_count
StoredIds == { r.repo_id : r \in repositories }

\* The value crawl_partition returns is the one partition_and_crawl's
\* model of the call computes.
ReturnAgrees ==
    pc = "done" =>
        fetched = crawl_partition_returns(already,
                      Max(0, remote.total - Offset(cursorAtStart)), max_from_partition)

\* C1: when crawl_partition returns normally, every record it counted
\* into fetched has been passed to bulk_upsert: the batch is empty.
C1_BatchEmptyAtReturn ==
    pc = "done" => batch = << >>

\* C2: a crawl that was killed and re-invoked with the same
\* max_from_partition has, when it returns, passed each of the first
\* min(max_from_partition, total) records to a successful bulk_upsert.
C2_AtLeastOnceAfterKill ==
    (pc = "done" /\ prevKilled /\ prevMax = max_from_partition)
        => \A i \in 1..Min(max_from_partition, remote.total) : i \in StoredIds

\* C3: resuming from a checkpoint with fetched_count = F < target counts
\* at most target - F further records and counts no record twice into
\* the checkpoint's fetched_count.
C3_ResumeCountsOnce ==
    (Running \/ pc \in {"done", "failed"}) /\ 0 < already /\ already < max_from_partition
        => /\ fetched - already <= max_from_partition - already
           /\ \A id \in DOMAIN credits : credits[id] <= 1

\* C4: every save_checkpoint of n records directly follows a successful
\* bulk_upsert of exactly those n records, and the stored fetched_count
\* never exceeds the number of records handed to storage.
C4_StorageThenCheckpoint ==
    /\ StoredCount <= Len(stars_history)
    /\ \A k \in 1..Len(calls) :
          calls[k][1] = "save_checkpoint"
             => k > 1 /\ calls[k-1] = <<"bulk_upsert", calls[k][3]>>

C4_Witness ==
    /\ pc = "failed"
    /\ Len(batch) = batch_size
    /\ Len(calls) = 2
    /\ calls[2][1] = "save_checkpoint"
    /\ StoredCount = Len(stars_history)

\* C5: no prior checkpoint, target 120, pages of 50, 50 and 20 with
\* hasNextPage false on the last one: three bulk_upserts of 50, 50, 20,
\* three checkpoint writes leaving 50, 100, 120, and 120 is returned.
C5_Scenario ==
    (pc = "done" /\ runs = 1 /\ max_from_partition = 120
        /\ remote = [pageSize |-> 50, total |-> 120])
    => /\ calls = << <<"bulk_upsert", 50>>, <<"save_checkpoint", None, 50, 50>>,
                     <<"bulk_upsert", 50>>, <<"save_checkpoint", <<50>>, 50, 100>>,
                     <<"bulk_upsert", 20>>, <<"save_checkpoint", <<100>>, 20, 120>> >>
       /\ StoredCount = 120
       /\ fetched = 120

C5_Witness ==
    /\ pc = "done" /\ runs = 1 /\ max_from_partition = 120
    /\ remote = [pageSize |-> 50, total |-> 120]
    /\ Len(calls) = 6

\* C8: every record counted by crawl_partition has added exactly one
\* stars_history row by the time the invocation returns.
C8_OneHistoryRowPerCountedRecord ==
    pc = "done" => Len(stars_history) - histAtStart = fetched - already


\* C11: a response with remaining < 10 makes crawl_partition sleep
\* max(5, seconds to reset + 5), at least the time to the reset, and go
\* on to the next request; a response with remaining >= 10 causes no
\* rate-limit sleep.
C11_RateLimitBackoff ==
    /\ resp = "rate" =>
          /\ pc # "failed"
          /\ slept = <<"rate", Max(5000, rl.until + 5000)>>
          /\ slept[2] >= rl.until
    /\ resp = "ok" => slept[1] # "rate"

\* The sleep is the claimed one whenever the wait can be computed.
RateLimitSleepWhenComputed ==
    (resp = "rate" /\ raised = "none") =>
        /\ slept = <<"rate", Max(5000, rl.until + 5000)>>
        /\ slept[2] >= rl.until
        /\ pc = "request"

\* C15: when the checkpoint's fetched_count is already >=
\* max_from_partition, crawl_partition issues no request, calls neither
\* bulk_upsert nor save_checkpoint, leaves the checkpoint row as it was
\* and returns the checkpoint's fetched_count.
C15_CompleteSkipped ==
    ((Running \/ pc \in {"done", "failed"}) /\ already >= max_from_partition)
        => /\ pc = "done"
           /\ resp = "none"
           /\ calls = << >>
           /\ fetched = already
           /\ Len(stars_history) = histAtStart
           /\ get_checkpoint(checkpoints, PartitionKey)
                 = [end_cursor |-> cursorAtStart, fetched_count |-> already]

C15_Witness ==
    /\ pc = "done"
    /\ runs = 2
    /\ already > 0
    /\ already >= max_from_partition
    /\ PartitionKey \in DOMAIN checkpoints

\* C16: a response with application errors or with remaining < 10
\* leaves cursor, fetched, batch and the tables unchanged, and the next
\* request is made with the same cursor.
C16_RejectedStep ==
    (pc = "request" /\ resp' \in {"errors", "rate"})
        => /\ pc' = "request"
           /\ cursor' = cursor
           /\ cursor' = reqCursor'
           /\ fetched' = fetched
           /\ batch' = batch
           /\ dbVars' = dbVars

C16_RejectedNotConsumed == [][C16_RejectedStep]_vars

\* C17: with transport and database calls succeeding, crawl_partition
\* does not end by raising, and it returns only when fetched >=
\* max_from_partition or the last page had no next page.
C17_CrawlReturns ==
    /\ pc = "failed" => raised \in {"RuntimeError", "DatabaseError"}
    /\ pc = "done" => (fetched >= max_from_partition \/ ~page.hasNextPage)

\* The return condition alone.
ReturnsOnlyWhenFinished ==
    pc = "done" => (fetched >= max_from_partition \/ ~page.hasNextPage)

\* C19: during one invocation the stored fetched_count plus the length
\* of the batch equals fetched, and once a record is processed the
\* batch holds fewer than 50 entities.
C19_CounterConsistency ==
    /\ (Running \/ pc = "done") => StoredCount + Len(batch) = fetched
    /\ pc \in {"request", "edges", "pageinfo", "final_upsert", "final_ckpt", "done"}
          => Len(batch) < 50

C19_Witness ==
    /\ pc = "edges"
    /\ runs = 2
    /\ already > 0
    /\ StoredCount > already
    /\ Len(batch) > 0

====
